---------------------------- MODULE Spec2Model ----------------------------
(***************************************************************************)
(* Model of src/backtest.py: the breakout signal of apply_strategy and the *)
(* per-bar trade loop of backtest.                                         *)
(*                                                                         *)
(* Prices and the balance are integers (price ticks): + and - are exact.   *)
(* The rounding of binary floating point is not modelled.                  *)
(*                                                                         *)
(* backtest reads row i of its frame once, in iteration i, and never looks *)
(* back; the model draws row i when iteration i reads it.  Of the frame it *)
(* keeps len(data) (n), the Signal column read or skipped so far (Signal), *)
(* and the High/Low of the latest row (last), which shift(1) turns into    *)
(* the next row's Prev_High/Prev_Low.  apply_strategy as a function of a   *)
(* whole frame (raw to frame) runs in a specification of its own.          *)
(***************************************************************************)
EXTENDS Integers, Sequences, FiniteSets

\* Bounds of the model.
MaxPrice == 3
MaxBars == 3

\* def backtest(data, initial_balance=10000)
DefaultBalance == 10000

Prices == 1..MaxPrice

\* One OHLC bar, as far as the code reads it: High, Low, Close, with
\* Low <= Close <= High.
Bars ==
  {b \in [High : Prices, Low : Prices, Close : Prices] :
     b.Low <= b.Close /\ b.Close <= b.High}

Abs(x) == IF x < 0 THEN -x ELSE x

VARIABLES
  policy,          \* who wrote data['Signal']: "breakout" (apply_strategy) or "opaque"
  initial_balance, \* parameter of backtest
  n,               \* len(data)
  Signal,          \* data['Signal'], rows 0 .. i-1 (row k at Signal[k+1])
  last,            \* data['High'], data['Low'] of row i-1
  i,               \* the index the for loop takes next
  signal, date, close, prev_low, prev_high, high, low,  \* locals of the loop body
  balance, open_trades, closed_trades,
  log,             \* the lines backtest has printed
  pc,              \* "loop" | "done" (backtest), "apply" | "applied" (apply_strategy)
  returned,        \* the value backtest returns
  raw,             \* the frame handed to apply_strategy
  frame            \* the frame apply_strategy returns

vars ==
  <<policy, initial_balance, n, Signal, last, i, signal, date, close,
    prev_low, prev_high, high, low, balance, open_trades, closed_trades,
    log, pc, returned, raw, frame>>

(***************************************************************************)
(* apply_strategy                                                          *)
(***************************************************************************)

\* Mutant of BreakoutSignal: >= for > in the Long test.
BreakoutSignalLongAtHigh(c, ph, pl) ==
  IF c < pl THEN -1 ELSE IF c >= ph THEN 1 ELSE 0

\* data['Signal'] = 0; .loc[Close > Prev_High] = 1; .loc[Close < Prev_Low] = -1
\* (the second assignment is applied after the first and overrides it)

BreakoutSignal(c, ph, pl) ==
  IF c < pl THEN -1 ELSE IF c > ph THEN 1 ELSE 0

\* One row of the frame apply_strategy returns: bar b with the shifted
\* High/Low of the bar before it (prev) and the signal.
StrategyRow(prev, b, s, d) ==
  [Signal |-> s, Date |-> d, Close |-> b.Close, High |-> b.High, Low |-> b.Low,
   Prev_High |-> prev.High, Prev_Low |-> prev.Low]

\* What shift(1) leaves in row 0: no value.
NaN == 0

\* data['Prev_High'] = data['High'].shift(1); data['Prev_Low'] = ... :
\* row k (1-based) of the raw frame with the High/Low of the row before it.
\* Date is the row's index in the raw frame.
Shifted(rows) ==
  [k \in 1..Len(rows) |->
     [Date |-> k - 1, Close |-> rows[k].Close, High |-> rows[k].High,
      Low |-> rows[k].Low,
      Prev_High |-> IF k = 1 THEN NaN ELSE rows[k - 1].High,
      Prev_Low |-> IF k = 1 THEN NaN ELSE rows[k - 1].Low]]

\* Mutant of DropNa: nothing is dropped.
DropNaNone(rows) == rows

\* data.dropna(subset=['Prev_High', 'Prev_Low'])
DropNa(rows) ==
  SelectSeq(rows, LAMBDA r : r.Prev_High # NaN /\ r.Prev_Low # NaN)

\* apply_strategy over a whole frame (a sequence of bars): shift, dropna,
\* then the Signal column.
ApplyStrategy(rows) ==
  LET kept == DropNa(Shifted(rows))
  IN  [k \in 1..Len(kept) |->
         StrategyRow([High |-> kept[k].Prev_High, Low |-> kept[k].Prev_Low],
                     kept[k],
                     BreakoutSignal(kept[k].Close, kept[k].Prev_High,
                                    kept[k].Prev_Low),
                     kept[k].Date)]

\* The signals a row may carry under each policy.
SignalChoices(p, prev, b) ==
  IF p = "breakout"
    THEN {BreakoutSignal(b.Close, prev.High, prev.Low)}
    ELSE {-1, 0, 1}

\* data['Date'].iloc[k]: timestamps are the bar's index in the raw series
\* (row 0 of the raw series was dropped by dropna).
DateOf(k) == k + 1

(***************************************************************************)
(* backtest                                                                *)
(***************************************************************************)

\* for i in range(1, len(data))
LoopStart == 1

\* Mutant of OpenLong: the target two risks away.
OpenLongWide(c, pl, d) ==
  [direction |-> 1, entry_price |-> c, stop_loss |-> pl,
   take_profit |-> c + 2 * (c - pl), entry_date |-> d]

\* signal == 1: the Long position
OpenLong(c, pl, d) ==
  [direction |-> 1, entry_price |-> c, stop_loss |-> pl,
   take_profit |-> c + (c - pl), entry_date |-> d]

\* signal == -1: the Short position
OpenShort(c, ph, d) ==
  [direction |-> -1, entry_price |-> c, stop_loss |-> ph,
   take_profit |-> c - (ph - c), entry_date |-> d]

\* Mutant of OpenOnSignal: else for elif, a Flat bar opens a Short.
OpenOnSignalElse(trades, s, c, pl, ph, d) ==
  IF s = 1 THEN Append(trades, OpenLong(c, pl, d))
  ELSE Append(trades, OpenShort(c, ph, d))

\* Mutant of OpenOnSignal: the Short's stop at prev_low.
OpenOnSignalShortAtLow(trades, s, c, pl, ph, d) ==
  IF s = 1 THEN Append(trades, OpenLong(c, pl, d))
  ELSE IF s = -1 THEN Append(trades, OpenShort(c, pl, d))
  ELSE trades

\* Mutant of OpenOnSignal: a new position replaces the open ones of the
\* opposite direction.
OpenOnSignalReverse(trades, s, c, pl, ph, d) ==
  IF s = 1
    THEN Append(SelectSeq(trades, LAMBDA t : t.direction = 1), OpenLong(c, pl, d))
  ELSE IF s = -1
    THEN Append(SelectSeq(trades, LAMBDA t : t.direction = -1), OpenShort(c, ph, d))
  ELSE trades

\* "Open new trades on signals"
OpenOnSignal(trades, s, c, pl, ph, d) ==
  IF s = 1 THEN Append(trades, OpenLong(c, pl, d))
  ELSE IF s = -1 THEN Append(trades, OpenShort(c, ph, d))
  ELSE trades

\* print(f"Day {i} ({date}): Long Entry at {entry_price}, Close: {close},
\* Prev High: {prev_high}, Prev Low: {prev_low}, SL {stop_loss}, TP {take_profit}")
\* The line as a record.  Of Prev High and Prev Low it keeps the one the
\* position uses, as its stop_loss; the other is left out of the record.
EntryLine(kind, day, trade, c) ==
  [kind |-> kind, day |-> day, date |-> trade.entry_date,
   price |-> trade.entry_price, close |-> c,
   stop_loss |-> trade.stop_loss, take_profit |-> trade.take_profit]

\* The print of "Open new trades on signals": one line on a Long or Short
\* signal, none on Flat.
PrintEntry(out, s, day, c, pl, ph, d) ==
  IF s = 1
    THEN Append(out, EntryLine("Long Entry", day, OpenLong(c, pl, d), c))
  ELSE IF s = -1
    THEN Append(out, EntryLine("Short Entry", day, OpenShort(c, ph, d), c))
  ELSE out

\* {**trade, 'exit_date': date, 'exit_price': ..., 'result': ...}
Closed(trade, d, price, res) ==
  [direction |-> trade.direction, entry_price |-> trade.entry_price,
   stop_loss |-> trade.stop_loss, take_profit |-> trade.take_profit,
   entry_date |-> trade.entry_date, exit_date |-> d,
   exit_price |-> price, result |-> res]

\* print(f"Day {i} ({date}): Long Stopped Out at {...}, Balance: {balance}")
\* and its three siblings: one line of output.
ExitLine(kind, day, d, price, bal) ==
  [kind |-> kind, day |-> day, date |-> d, price |-> price, balance |-> bal]

\* Mutant of LongStopOut: the record is written, the balance is not settled.
LongStopOutUnsettled(st, trade, idx, day, d) ==
  [balance |-> st.balance,
   log |-> Append(st.log, ExitLine("Long Stopped Out", day, d, trade.stop_loss,
                                   st.balance)),
   closed_trades |-> Append(st.closed_trades,
      Closed(trade, d, trade.stop_loss, trade.stop_loss - trade.entry_price)),
   closed_indices |-> Append(st.closed_indices, idx)]

\* Mutant of LongTakeProfit: the gain measured from the stop.
LongTakeProfitFromStop(st, trade, idx, day, d) ==
  [balance |-> st.balance + (trade.take_profit - trade.stop_loss),
   log |-> Append(st.log, ExitLine("Long Take Profit", day, d, trade.take_profit,
                                   st.balance + (trade.take_profit - trade.stop_loss))),
   closed_trades |-> Append(st.closed_trades,
      Closed(trade, d, trade.take_profit, trade.take_profit - trade.stop_loss)),
   closed_indices |-> Append(st.closed_indices, idx)]

\* Mutant of ShortStopOut: the Long's sign.
ShortStopOutAsLong(st, trade, idx, day, d) ==
  [balance |-> st.balance + (trade.stop_loss - trade.entry_price),
   log |-> Append(st.log, ExitLine("Short Stopped Out", day, d, trade.stop_loss,
                                   st.balance + (trade.stop_loss - trade.entry_price))),
   closed_trades |-> Append(st.closed_trades,
      Closed(trade, d, trade.stop_loss, trade.stop_loss - trade.entry_price)),
   closed_indices |-> Append(st.closed_indices, idx)]

\* Mutant of ShortTakeProfit: the record's result with the Long's sign.
ShortTakeProfitLongResult(st, trade, idx, day, d) ==
  [balance |-> st.balance + (trade.entry_price - trade.take_profit),
   log |-> Append(st.log, ExitLine("Short Take Profit", day, d, trade.take_profit,
                                   st.balance + (trade.entry_price - trade.take_profit))),
   closed_trades |-> Append(st.closed_trades,
      Closed(trade, d, trade.take_profit, trade.take_profit - trade.entry_price)),
   closed_indices |-> Append(st.closed_indices, idx)]

\* Mutant of LongTakeProfit: the line is printed before the balance is
\* settled.
LongTakeProfitPrintFirst(st, trade, idx, day, d) ==
  [balance |-> st.balance + (trade.take_profit - trade.entry_price),
   log |-> Append(st.log, ExitLine("Long Take Profit", day, d, trade.take_profit,
                                   st.balance)),
   closed_trades |-> Append(st.closed_trades,
      Closed(trade, d, trade.take_profit, trade.take_profit - trade.entry_price)),
   closed_indices |-> Append(st.closed_indices, idx)]

\* The four exits, on st = [balance, log, closed_trades, closed_indices]:
\* balance += ...; print(...); closed_trades.append(...);
\* closed_indices.append(idx)
LongStopOut(st, trade, idx, day, d) ==
  [balance |-> st.balance + (trade.stop_loss - trade.entry_price),
   log |-> Append(st.log, ExitLine("Long Stopped Out", day, d, trade.stop_loss,
                                   st.balance + (trade.stop_loss - trade.entry_price))),
   closed_trades |-> Append(st.closed_trades,
      Closed(trade, d, trade.stop_loss, trade.stop_loss - trade.entry_price)),
   closed_indices |-> Append(st.closed_indices, idx)]

LongTakeProfit(st, trade, idx, day, d) ==
  [balance |-> st.balance + (trade.take_profit - trade.entry_price),
   log |-> Append(st.log, ExitLine("Long Take Profit", day, d, trade.take_profit,
                                   st.balance + (trade.take_profit - trade.entry_price))),
   closed_trades |-> Append(st.closed_trades,
      Closed(trade, d, trade.take_profit, trade.take_profit - trade.entry_price)),
   closed_indices |-> Append(st.closed_indices, idx)]

ShortStopOut(st, trade, idx, day, d) ==
  [balance |-> st.balance + (trade.entry_price - trade.stop_loss),
   log |-> Append(st.log, ExitLine("Short Stopped Out", day, d, trade.stop_loss,
                                   st.balance + (trade.entry_price - trade.stop_loss))),
   closed_trades |-> Append(st.closed_trades,
      Closed(trade, d, trade.stop_loss, trade.entry_price - trade.stop_loss)),
   closed_indices |-> Append(st.closed_indices, idx)]

ShortTakeProfit(st, trade, idx, day, d) ==
  [balance |-> st.balance + (trade.entry_price - trade.take_profit),
   log |-> Append(st.log, ExitLine("Short Take Profit", day, d, trade.take_profit,
                                   st.balance + (trade.entry_price - trade.take_profit))),
   closed_trades |-> Append(st.closed_trades,
      Closed(trade, d, trade.take_profit, trade.entry_price - trade.take_profit)),
   closed_indices |-> Append(st.closed_indices, idx)]

\* Mutant of ExitStep: a Long that stays open is marked to the bar's high.
ExitStepMarkToMarket(st, trade, idx, h, l, day, d) ==
  IF trade.direction = 1
    THEN IF l <= trade.stop_loss THEN LongStopOut(st, trade, idx, day, d)
         ELSE IF h >= trade.take_profit THEN LongTakeProfit(st, trade, idx, day, d)
         ELSE [st EXCEPT !.balance = @ + (h - trade.entry_price)]
  ELSE IF trade.direction = -1
    THEN IF h >= trade.stop_loss THEN ShortStopOut(st, trade, idx, day, d)
         ELSE IF l <= trade.take_profit THEN ShortTakeProfit(st, trade, idx, day, d)
         ELSE st
  ELSE st

\* Mutant of ExitStep: take-profit tested before stop-loss.
ExitStepProfitFirst(st, trade, idx, h, l, day, d) ==
  IF trade.direction = 1
    THEN IF h >= trade.take_profit THEN LongTakeProfit(st, trade, idx, day, d)
         ELSE IF l <= trade.stop_loss THEN LongStopOut(st, trade, idx, day, d)
         ELSE st
  ELSE IF trade.direction = -1
    THEN IF l <= trade.take_profit THEN ShortTakeProfit(st, trade, idx, day, d)
         ELSE IF h >= trade.stop_loss THEN ShortStopOut(st, trade, idx, day, d)
         ELSE st
  ELSE st

\* The body of "for idx, trade in enumerate(open_trades)" for one trade, on
\* a bar with high h and low l.
ExitStep(st, trade, idx, h, l, day, d) ==
  IF trade.direction = 1
    THEN IF l <= trade.stop_loss THEN LongStopOut(st, trade, idx, day, d)
         ELSE IF h >= trade.take_profit THEN LongTakeProfit(st, trade, idx, day, d)
         ELSE st
  ELSE IF trade.direction = -1
    THEN IF h >= trade.stop_loss THEN ShortStopOut(st, trade, idx, day, d)
         ELSE IF l <= trade.take_profit THEN ShortTakeProfit(st, trade, idx, day, d)
         ELSE st
  ELSE st

\* for idx, trade in enumerate(open_trades): the loop from (0-based) idx on.
RECURSIVE CheckExits(_, _, _, _, _, _, _)
CheckExits(trades, idx, h, l, day, d, st) ==
  IF idx >= Len(trades) THEN st
  ELSE CheckExits(trades, idx + 1, h, l, day, d,
                  ExitStep(st, trades[idx + 1], idx, h, l, day, d))

\* Mutant of Del: the levels are copied down one slot, each slot keeps its
\* entry_date.
DelKeepDates(trades, idx) ==
  [k \in 1..(Len(trades) - 1) |->
     IF k <= idx THEN trades[k]
     ELSE [trades[k + 1] EXCEPT !.entry_date = trades[k].entry_date]]

\* Mutant of Del: del open_trades[idx + 1], the last entry when there is none.
DelNext(trades, idx) ==
  [k \in 1..(Len(trades) - 1) |-> IF k <= idx + 1 THEN trades[k] ELSE trades[k + 1]]

\* del open_trades[idx]
Del(trades, idx) ==
  [k \in 1..(Len(trades) - 1) |-> IF k <= idx THEN trades[k] ELSE trades[k + 1]]

\* sorted(closed_indices, reverse=True)
RECURSIVE SortedReverse(_)
SortedReverse(indices) ==
  IF indices = {} THEN <<>>
  ELSE LET m == CHOOSE x \in indices : \A y \in indices : y <= x
       IN  <<m>> \o SortedReverse(indices \ {m})

\* for idx in order: del open_trades[idx]
RECURSIVE DelEach(_, _)
DelEach(trades, order) ==
  IF order = <<>> THEN trades
  ELSE DelEach(Del(trades, order[1]), Tail(order))

\* Mutant of RemoveClosed: the removal loop is missing.
RemoveClosedNone(trades, closed_indices) == trades

\* "Remove closed trades (from last to first to avoid index shift)"
RemoveClosed(trades, closed_indices) ==
  DelEach(trades,
          SortedReverse({closed_indices[k] : k \in 1..Len(closed_indices)}))

\* The frame: its length and, when it has a row 0, that row's signal and
\* High/Low.  Under "breakout" the signal of row 0 comes from the raw bar
\* before it.
NoBar == [High |-> 0, Low |-> 0]

Init ==
  /\ policy \in {"breakout", "opaque"}
  /\ initial_balance = DefaultBalance
  /\ n \in 0..MaxBars
  /\ IF n = 0
       THEN Signal = <<>> /\ last = NoBar
       ELSE \E raw0 \in Bars, b \in Bars :
              \E s \in SignalChoices(policy, raw0, b) :
                /\ Signal = <<s>>
                /\ last = [High |-> b.High, Low |-> b.Low]
  /\ i = LoopStart
  /\ signal = 0 /\ date = 0 /\ close = 0 /\ prev_low = 0 /\ prev_high = 0
  /\ high = 0 /\ low = 0
  /\ balance = initial_balance
  /\ open_trades = <<>>
  /\ closed_trades = <<>>
  /\ log = <<>>
  /\ pc = "loop"
  /\ returned = 0
  /\ raw = <<>>
  /\ frame = <<>>

\* One iteration of the for loop: read row i, open on its signal, check every
\* open trade for exit, remove the closed ones.
Iterate ==
  /\ pc = "loop"
  /\ i < n
  /\ \E b \in Bars :
       \E s \in SignalChoices(policy, last, b) :
         LET row == StrategyRow(last, b, s, DateOf(i))
             opened == OpenOnSignal(open_trades, row.Signal, row.Close,
                                    row.Prev_Low, row.Prev_High, row.Date)
             st == CheckExits(opened, 0, row.High, row.Low, i, row.Date,
                              [balance |-> balance,
                               log |-> PrintEntry(log, row.Signal, i, row.Close,
                                                  row.Prev_Low, row.Prev_High,
                                                  row.Date),
                               closed_trades |-> closed_trades,
                               closed_indices |-> <<>>])
         IN  /\ signal' = row.Signal
             /\ date' = row.Date
             /\ close' = row.Close
             /\ prev_low' = row.Prev_Low
             /\ prev_high' = row.Prev_High
             /\ high' = row.High
             /\ low' = row.Low
             /\ balance' = st.balance
             /\ log' = st.log
             /\ closed_trades' = st.closed_trades
             /\ open_trades' = RemoveClosed(opened, st.closed_indices)
             /\ Signal' = Append(Signal, row.Signal)
             /\ last' = [High |-> b.High, Low |-> b.Low]
  /\ i' = i + 1
  /\ UNCHANGED <<policy, initial_balance, n, pc, returned, raw, frame>>

\* print(f"Final Balance: {balance}")
FinalLine(bal) == [kind |-> "Final Balance", balance |-> bal]

\* The loop is over (or never ran): print and return balance.
Return ==
  /\ pc = "loop"
  /\ i >= n
  /\ pc' = "done"
  /\ log' = Append(log, FinalLine(balance))
  /\ returned' = balance
  /\ UNCHANGED <<policy, initial_balance, n, Signal, last, i, signal, date,
                 close, prev_low, prev_high, high, low, balance, open_trades,
                 closed_trades, raw, frame>>

Next == Iterate \/ Return

\* backtest on any frame whose Prev_High/Prev_Low are the shifted High/Low.
Spec == Init /\ [][Next]_vars

\* backtest(apply_strategy(raw)), as __main__ runs it.
InitBreakout == Init /\ policy = "breakout"

SpecBreakout == InitBreakout /\ [][Next]_vars

\* apply_strategy alone, on a frame of up to MaxBars bars; backtest is not
\* called and its variables keep their initial values.
InitStrategy ==
  /\ raw \in UNION {[1..len -> Bars] : len \in 0..MaxBars}
  /\ frame = <<>>
  /\ pc = "apply"
  /\ policy = "breakout"
  /\ initial_balance = DefaultBalance
  /\ n = 0 /\ Signal = <<>> /\ last = NoBar
  /\ i = LoopStart
  /\ signal = 0 /\ date = 0 /\ close = 0 /\ prev_low = 0 /\ prev_high = 0
  /\ high = 0 /\ low = 0
  /\ balance = initial_balance
  /\ open_trades = <<>>
  /\ closed_trades = <<>>
  /\ log = <<>>
  /\ returned = 0

\* data = apply_strategy(data)
Apply ==
  /\ pc = "apply"
  /\ frame' = ApplyStrategy(raw)
  /\ pc' = "applied"
  /\ UNCHANGED <<policy, initial_balance, n, Signal, last, i, signal, date,
                 close, prev_low, prev_high, high, low, balance, open_trades,
                 closed_trades, log, returned, raw>>

NextStrategy == Apply

SpecStrategy == InitStrategy /\ [][NextStrategy]_vars

(***************************************************************************)
(* Helpers of the properties                                               *)
(***************************************************************************)

SeqSet(s) == {s[k] : k \in 1..Len(s)}

\* What a position is made of at creation, read off an open or a closed record.
Levels(t) ==
  [direction |-> t.direction, entry_price |-> t.entry_price,
   stop_loss |-> t.stop_loss, take_profit |-> t.take_profit,
   entry_date |-> t.entry_date]

\* Every position created so far.
Positions == {Levels(t) : t \in SeqSet(open_trades) \cup SeqSet(closed_trades)}

\* The records closed on the bar of the latest iteration.
ClosedNow == {r \in SeqSet(closed_trades) : r.exit_date = date}

\* The loop body has run at least once: the locals hold a bar.
Iterated == i > LoopStart

\* The stop-loss and take-profit conditions of a position on a bar (h, l).
StopHit(t, h, l) ==
  IF t.direction = 1 THEN l <= t.stop_loss ELSE h >= t.stop_loss

ProfitHit(t, h, l) ==
  IF t.direction = 1 THEN h >= t.take_profit ELSE l <= t.take_profit

RECURSIVE SumResults(_)
SumResults(s) ==
  IF s = <<>> THEN 0 ELSE s[1].result + SumResults(Tail(s))

\* In a step of the loop: the list the exit check walks, and the records
\* the step appends.
Evaluated ==
  OpenOnSignal(open_trades, signal', close', prev_low', prev_high', date')

NewClosed ==
  SubSeq(closed_trades', Len(closed_trades) + 1, Len(closed_trades'))

(***************************************************************************)
(* C1. No early exit: every closed position was closed on a bar later than *)
(* the bar it was opened on.                                               *)
(***************************************************************************)
NoEarlyExit ==
  \A r \in SeqSet(closed_trades) : r.exit_date > r.entry_date

(***************************************************************************)
(* C2. Tie-break: a position whose stop-loss and take-profit conditions    *)
(* both hold on the bar just processed was closed on it at stop_loss, with *)
(* the stop-loss result; none with both conditions holding is left open.   *)
(***************************************************************************)
StopResult(t) ==
  IF t.direction = 1 THEN t.stop_loss - t.entry_price
                     ELSE t.entry_price - t.stop_loss

TieBreakStopFirst ==
  Iterated =>
    /\ \A r \in ClosedNow :
         (StopHit(r, high, low) /\ ProfitHit(r, high, low)) =>
           (r.exit_price = r.stop_loss /\ r.result = StopResult(r))
    /\ \A t \in SeqSet(open_trades) :
         ~(StopHit(t, high, low) /\ ProfitHit(t, high, low))

TieBreakWitness ==
  /\ Iterated
  /\ \E r \in ClosedNow :
       /\ r.direction = 1
       /\ StopHit(r, high, low) /\ ProfitHit(r, high, low)
       /\ r.stop_loss < r.entry_price
       /\ r.exit_date > r.entry_date

(***************************************************************************)
(* C3. When backtest returns, every row of the frame, row 0 included, has  *)
(* exactly one position created on it if its signal is 1 or -1, and none   *)
(* if it is 0.                                                             *)
(***************************************************************************)
CreatedOn(d) == Cardinality({p \in Positions : p.entry_date = d})

OnePositionPerSignalBar ==
  pc = "done" =>
    \A k \in 1..Len(Signal) :
      CreatedOn(DateOf(k - 1)) = (IF Signal[k] \in {1, -1} THEN 1 ELSE 0)

(***************************************************************************)
(* C4. Long exit resolution: in every iteration, each Long position the    *)
(* exit check walks closes with result stop_loss - entry_price if          *)
(* low <= stop_loss, else closes with result take_profit - entry_price if  *)
(* high >= take_profit, else stays open; and the balance changes by the    *)
(* sum of these amounts (plus what the Short records of the bar report).   *)
(* The spec's example: entry 100, stop 95, target 105 from 10000 gives     *)
(* 10005 on high 106 / low 99 and 9995 on high 101 / low 94.               *)
(***************************************************************************)
LongClaim(t, h, l) ==
  IF l <= t.stop_loss
    THEN [closes |-> TRUE, change |-> t.stop_loss - t.entry_price]
  ELSE IF h >= t.take_profit
    THEN [closes |-> TRUE, change |-> t.take_profit - t.entry_price]
  ELSE [closes |-> FALSE, change |-> 0]

ShortClaim(t, h, l) ==
  IF h >= t.stop_loss
    THEN [closes |-> TRUE, change |-> t.entry_price - t.stop_loss]
  ELSE IF l <= t.take_profit
    THEN [closes |-> TRUE, change |-> t.entry_price - t.take_profit]
  ELSE [closes |-> FALSE, change |-> 0]

\* Sum of the claimed changes of the positions of direction dir in list s.
RECURSIVE SumClaims(_, _, _, _)
SumClaims(s, dir, h, l) ==
  IF s = <<>> THEN 0
  ELSE (IF s[1].direction # dir THEN 0
        ELSE IF dir = 1 THEN LongClaim(s[1], h, l).change
        ELSE ShortClaim(s[1], h, l).change)
       + SumClaims(Tail(s), dir, h, l)

\* Sum of the results of the records of direction dir in list s.
RECURSIVE SumResultsOf(_, _)
SumResultsOf(s, dir) ==
  IF s = <<>> THEN 0
  ELSE (IF s[1].direction = dir THEN s[1].result ELSE 0)
       + SumResultsOf(Tail(s), dir)

\* Position t is resolved by the step as claim c says.
ResolvedAs(t, c) ==
  /\ c.closes <=> ~(\E o \in SeqSet(open_trades') : o.entry_date = t.entry_date)
  /\ c.closes <=> (\E r \in SeqSet(NewClosed) : r.entry_date = t.entry_date)
  /\ \A r \in SeqSet(NewClosed) :
       r.entry_date = t.entry_date => r.result = c.change

LongExitStep ==
  (i' = i + 1) =>
    /\ \A t \in SeqSet(Evaluated) :
         t.direction = 1 => ResolvedAs(t, LongClaim(t, high', low'))
    /\ balance' - balance =
         SumClaims(Evaluated, 1, high', low') + SumResultsOf(NewClosed, -1)

LongExample ==
  LET t == OpenLong(100, 95, 1)
      st == [balance |-> 10000, log |-> <<>>, closed_trades |-> <<>>,
             closed_indices |-> <<>>]
  IN  /\ t.stop_loss = 95 /\ t.take_profit = 105
      /\ CheckExits(<<t>>, 0, 106, 99, 1, 2, st).balance = 10005
      /\ CheckExits(<<t>>, 0, 101, 94, 1, 2, st).balance = 9995

LongExitResolution == [][LongExample /\ LongExitStep]_vars

LongExitWitness ==
  /\ Iterated
  /\ \E r \in ClosedNow :
       /\ r.direction = 1 /\ r.exit_date > r.entry_date
       /\ low > r.stop_loss /\ r.exit_price = r.take_profit /\ r.result > 0
  /\ \E t \in SeqSet(open_trades) : t.direction = 1

(***************************************************************************)
(* C5. Short exit resolution: in every iteration, each Short position the  *)
(* exit check walks closes with result entry_price - stop_loss if          *)
(* high >= stop_loss, else closes with result entry_price - take_profit if *)
(* low <= take_profit, else stays open; and the balance changes by the sum *)
(* of these amounts (plus what the Long records of the bar report).        *)
(***************************************************************************)
ShortExitStep ==
  (i' = i + 1) =>
    /\ \A t \in SeqSet(Evaluated) :
         t.direction = -1 => ResolvedAs(t, ShortClaim(t, high', low'))
    /\ balance' - balance =
         SumClaims(Evaluated, -1, high', low') + SumResultsOf(NewClosed, 1)

ShortExitResolution == [][ShortExitStep]_vars

ShortExitWitness ==
  /\ Iterated
  /\ \E r \in ClosedNow :
       /\ r.direction = -1 /\ r.exit_date > r.entry_date
       /\ high < r.stop_loss /\ r.exit_price = r.take_profit /\ r.result > 0
  /\ \E t \in SeqSet(open_trades) : t.direction = -1

(***************************************************************************)
(* C6. Balance conservation: while every signal of the frame so far is 0,  *)
(* the balance is initial_balance, and so is the value returned.           *)
(***************************************************************************)
AllFlat == \A k \in 1..Len(Signal) : Signal[k] = 0

FlatKeepsBalance ==
  AllFlat =>
    /\ balance = initial_balance
    /\ pc = "done" => returned = initial_balance

FlatWitness ==
  /\ pc = "done" /\ AllFlat /\ n >= 3 /\ Len(Signal) = n
  /\ returned = initial_balance

(***************************************************************************)
(* C7. Cash-only balance: the balance is initial_balance plus the results  *)
(* of the positions closed so far, and that is the value returned; open    *)
(* positions contribute nothing.                                           *)
(***************************************************************************)
CashOnlyBalance ==
  /\ balance = initial_balance + SumResults(closed_trades)
  /\ pc = "done" => returned = initial_balance + SumResults(closed_trades)

CashOnlyWitness ==
  /\ pc = "done"
  /\ open_trades # <<>>
  /\ \E t \in SeqSet(open_trades) : t.entry_price # close
  /\ SumResults(closed_trades) # 0
  /\ returned = initial_balance + SumResults(closed_trades)

(***************************************************************************)
(* C8. 1:1 risk/reward: every position, open or closed, has                *)
(* |take_profit - entry_price| = |entry_price - stop_loss|.                *)
(***************************************************************************)
RiskEqualsReward ==
  \A p \in Positions :
    Abs(p.take_profit - p.entry_price) = Abs(p.entry_price - p.stop_loss)

RiskRewardWitness ==
  /\ \E t \in SeqSet(open_trades) :
       t.direction = 1 /\ t.entry_price # t.stop_loss
  /\ \E r \in SeqSet(closed_trades) :
       r.direction = -1 /\ r.entry_price # r.stop_loss

(***************************************************************************)
(* C9. Level ordering under the breakout policy: every position has        *)
(* stop_loss < entry_price < take_profit if Long and                       *)
(* take_profit < entry_price < stop_loss if Short.                         *)
(***************************************************************************)
LevelOrdering ==
  \A p \in Positions :
    /\ p.direction = 1 =>
         (p.stop_loss < p.entry_price /\ p.entry_price < p.take_profit)
    /\ p.direction = -1 =>
         (p.take_profit < p.entry_price /\ p.entry_price < p.stop_loss)

LevelOrderingWitness ==
  /\ policy = "breakout"
  /\ \E p \in Positions : p.direction = 1
  /\ \E p \in Positions : p.direction = -1

(***************************************************************************)
(* C10. Creation levels: a position created in an iteration has            *)
(* entry_price = the bar's close; a Long has stop_loss = the low of the    *)
(* bar before and take_profit = entry + (entry - stop); a Short has        *)
(* stop_loss = the high of the bar before and                              *)
(* take_profit = entry - (stop - entry).                                   *)
(***************************************************************************)
CreationStep ==
  (i' = i + 1) =>
    \A t \in SeqSet(open_trades') \cup SeqSet(NewClosed) :
      t.entry_date = date' =>
        /\ t.entry_price = close'
        /\ t.direction = signal'
        /\ t.direction = 1 =>
             /\ t.stop_loss = last.Low
             /\ t.take_profit = t.entry_price + (t.entry_price - t.stop_loss)
        /\ t.direction = -1 =>
             /\ t.stop_loss = last.High
             /\ t.take_profit = t.entry_price - (t.stop_loss - t.entry_price)

CreationLevels == [][CreationStep]_vars

CreationWitness ==
  /\ Iterated
  /\ \E t \in SeqSet(open_trades) :
       /\ t.direction = 1 /\ t.entry_date # date
       /\ t.stop_loss # prev_low
  /\ \E t \in SeqSet(open_trades) :
       /\ t.direction = -1 /\ t.entry_date = date
       /\ t.stop_loss = prev_high /\ prev_high # prev_low

(***************************************************************************)
(* C11. Independence: in every iteration, whatever closes, each position   *)
(* left open has the direction, entry_price, stop_loss, take_profit and    *)
(* entry_date it had before the iteration (or, if created in it, at        *)
(* creation), and a record closed in it carries the levels its position    *)
(* had.                                                                    *)
(***************************************************************************)
IndependenceStep ==
  (i' = i + 1) =>
    /\ \A t \in SeqSet(open_trades') : t \in SeqSet(Evaluated)
    /\ \A o \in SeqSet(open_trades) :
         /\ \A t \in SeqSet(open_trades') :
              t.entry_date = o.entry_date => t = o
         /\ \A r \in SeqSet(NewClosed) :
              r.entry_date = o.entry_date => Levels(r) = o

Independence == [][IndependenceStep]_vars

IndependenceWitness ==
  /\ Iterated
  /\ \E r \in ClosedNow : \E t \in SeqSet(open_trades) :
       /\ t.entry_date < date
       /\ r.entry_date # t.entry_date

(***************************************************************************)
(* C12. A new signal closes and alters nothing: the creation step keeps    *)
(* the open list as a prefix and appends one position on a Long or Short   *)
(* signal, none on Flat; an already-open position leaves the list in the   *)
(* iteration only if its own stop-loss or take-profit condition holds on   *)
(* the bar, and the balance moves only by the results of the records       *)
(* closed.  A Long and then a Short on the next bar coexist (witness).     *)
(***************************************************************************)
ExitHit(t, h, l) == StopHit(t, h, l) \/ ProfitHit(t, h, l)

NewSignalStep ==
  (i' = i + 1) =>
    /\ Len(Evaluated) =
         Len(open_trades) + (IF signal' \in {1, -1} THEN 1 ELSE 0)
    /\ SubSeq(Evaluated, 1, Len(open_trades)) = open_trades
    /\ signal' \in {1, -1} =>
         /\ Evaluated[Len(Evaluated)].entry_date = date'
         /\ Evaluated[Len(Evaluated)].direction = signal'
    /\ \A o \in SeqSet(open_trades) :
         ~ExitHit(o, high', low') => o \in SeqSet(open_trades')
    /\ balance' = balance + SumResults(NewClosed)

NewSignalKeepsOthers == [][NewSignalStep]_vars

LongThenShortCoexist ==
  /\ Iterated
  /\ Len(open_trades) = 2
  /\ open_trades[1].direction = 1 /\ open_trades[2].direction = -1
  /\ open_trades[2].entry_date = open_trades[1].entry_date + 1
  /\ open_trades[2].entry_date = date
  /\ closed_trades = <<>> /\ balance = initial_balance

(***************************************************************************)
(* C13. Lifecycle Open -> {StoppedOut, TookProfit}, terminal: a position   *)
(* has at most one closed record and is never both open and closed; a      *)
(* record, once written, stays as it is; a closed position is not walked   *)
(* by the exit check of any later iteration; each record closes at the     *)
(* position's stop_loss or take_profit and is settled once.                *)
(***************************************************************************)
ClosedOnce ==
  \A j, k \in 1..Len(closed_trades) :
    closed_trades[j].entry_date = closed_trades[k].entry_date => j = k

NeverOpenAndClosed ==
  \A t \in SeqSet(open_trades) : \A r \in SeqSet(closed_trades) :
    t.entry_date # r.entry_date

LifecycleStep ==
  (i' = i + 1) =>
    /\ SubSeq(closed_trades', 1, Len(closed_trades)) = closed_trades
    /\ \A r \in SeqSet(closed_trades) : \A e \in SeqSet(Evaluated) :
         e.entry_date # r.entry_date
    /\ \A r \in SeqSet(NewClosed) :
         /\ r.exit_price \in {r.stop_loss, r.take_profit}
         /\ \E e \in SeqSet(Evaluated) : e = Levels(r)
    /\ ClosedOnce'
    /\ NeverOpenAndClosed'
    /\ balance' - balance = SumResults(NewClosed)

Lifecycle == [][LifecycleStep]_vars

LifecycleWitness ==
  /\ Iterated
  /\ \E r \in SeqSet(closed_trades) : r.exit_date < date
  /\ ClosedNow # {}

(***************************************************************************)
(* C16. Exact removal: after an iteration the open list is the list the    *)
(* exit check walked, in the same order, without exactly the positions     *)
(* whose stop-loss or take-profit condition held on the bar.               *)
(***************************************************************************)
RECURSIVE Survivors(_, _, _)
Survivors(s, h, l) ==
  IF s = <<>> THEN <<>>
  ELSE (IF ExitHit(s[1], h, l) THEN <<>> ELSE <<s[1]>>)
       \o Survivors(Tail(s), h, l)

ExactRemovalStep ==
  (i' = i + 1) => open_trades' = Survivors(Evaluated, high', low')

NoExitOnBar ==
  \A t \in SeqSet(Evaluated) : ~ExitHit(t, high', low')

OnlySettlementStep ==
  /\ (i' = i + 1 /\ NoExitOnBar) => balance' = balance
  /\ (i' = i) => balance' = balance

OnlySettlementMovesBalance == [][OnlySettlementStep]_vars

OnlySettlementWitness ==
  /\ Iterated
  /\ signal # 0
  /\ ClosedNow = {}
  /\ Len(open_trades) = 2
  /\ open_trades[1].direction = open_trades[2].direction
  /\ open_trades[2].entry_date = date
  /\ balance = initial_balance

(***************************************************************************)
(* C18. Position conservation: the number of Long/Short signals on the     *)
(* rows the loop has read equals len(open_trades) + len(closed_trades); no *)
(* position is in both lists; each closed record has exit_price equal to   *)
(* its stop_loss or take_profit and result = exit_price - entry_price if   *)
(* Long, entry_price - exit_price if Short.                                *)
(***************************************************************************)
\* Rows LoopStart .. i-1 have been read; row k is Signal[k + 1].
SignalsRead ==
  Cardinality({k \in (LoopStart + 1)..Len(Signal) : Signal[k] \in {1, -1}})

PositionConservation ==
  /\ SignalsRead = Len(open_trades) + Len(closed_trades)
  /\ \A t \in SeqSet(open_trades) : \A r \in SeqSet(closed_trades) :
       Levels(r) # t /\ r.entry_date # t.entry_date
  /\ \A r \in SeqSet(closed_trades) :
       /\ r.exit_price \in {r.stop_loss, r.take_profit}
       /\ r.result = (IF r.direction = 1 THEN r.exit_price - r.entry_price
                                         ELSE r.entry_price - r.exit_price)

PositionConservationWitness ==
  /\ pc = "done"
  /\ Len(open_trades) = 1 /\ Len(closed_trades) = 1
  /\ closed_trades[1].direction = -1 /\ closed_trades[1].result # 0
  /\ closed_trades[1].exit_price = closed_trades[1].take_profit

(***************************************************************************)
(* C14. Breakout classification: the frame apply_strategy returns holds    *)
(* the bars of the raw frame but the first, in order; each carries the     *)
(* High/Low of the bar before it, and Signal 1 iff its close > that high,  *)
(* -1 iff its close < that low, 0 otherwise (so 0 when the close equals    *)
(* either).                                                                *)
(***************************************************************************)
BreakoutClassification ==
  pc = "applied" =>
    /\ Len(frame) = (IF raw = <<>> THEN 0 ELSE Len(raw) - 1)
    /\ \A k \in 1..Len(frame) :
         LET row == frame[k]
             bar == raw[k + 1]
             before == raw[k]
         IN  /\ row.Date = k
             /\ row.Close = bar.Close /\ row.High = bar.High
             /\ row.Low = bar.Low
             /\ row.Prev_High = before.High /\ row.Prev_Low = before.Low
             /\ row.Signal \in {1, -1, 0}
             /\ row.Signal = 1 <=> bar.Close > before.High
             /\ row.Signal = -1 <=> bar.Close < before.Low
             /\ (bar.Close = before.High \/ bar.Close = before.Low) =>
                  row.Signal = 0

BreakoutWitness ==
  /\ pc = "applied"
  /\ Len(frame) = 2
  /\ frame[1].Signal = 0 /\ frame[1].Close = frame[1].Prev_High
  /\ frame[1].Prev_Low < frame[1].Prev_High
  /\ frame[2].Signal = -1

(***************************************************************************)
(* C15. Event log: the output holds one entry line per position created    *)
(* and one exit line per position closed, and nothing else but the final   *)
(* line; the lines come in the order of the transitions (day by day, the   *)
(* entry of a day before its exits, the exits in the order of the closed   *)
(* records); the balance of the k-th exit line is initial_balance plus the *)
(* results of the first k closed records.                                  *)
(***************************************************************************)
EntryKinds == {"Long Entry", "Short Entry"}

LongExitKinds == {"Long Stopped Out", "Long Take Profit"}

ShortExitKinds == {"Short Stopped Out", "Short Take Profit"}

ExitKinds == LongExitKinds \cup ShortExitKinds

IsEntry(line) == line.kind \in EntryKinds

IsExit(line) == line.kind \in ExitKinds

EntryLines == SelectSeq(log, IsEntry)

ExitLines == SelectSeq(log, IsExit)

EventLog ==
  /\ \A k \in 1..Len(log) :
       \/ IsEntry(log[k]) \/ IsExit(log[k])
       \/ /\ log[k].kind = "Final Balance" /\ k = Len(log) /\ pc = "done"
          /\ log[k].balance = returned
  /\ pc = "done" => (log # <<>> /\ log[Len(log)].kind = "Final Balance")
  /\ Len(EntryLines) = Cardinality(Positions)
  /\ \A p \in Positions :
       \E k \in 1..Len(EntryLines) :
         /\ EntryLines[k].date = p.entry_date
         /\ EntryLines[k].price = p.entry_price
         /\ EntryLines[k].stop_loss = p.stop_loss
         /\ EntryLines[k].take_profit = p.take_profit
         /\ EntryLines[k].kind = (IF p.direction = 1 THEN "Long Entry"
                                                     ELSE "Short Entry")
  /\ Len(ExitLines) = Len(closed_trades)
  /\ \A k \in 1..Len(ExitLines) :
       LET line == ExitLines[k]
           r == closed_trades[k]
       IN  /\ line.date = r.exit_date
           /\ line.price = r.exit_price
           /\ line.kind \in (IF r.direction = 1 THEN LongExitKinds
                                                ELSE ShortExitKinds)
           /\ line.kind \in {"Long Stopped Out", "Short Stopped Out"} =>
                line.price = r.stop_loss
           /\ line.kind \in {"Long Take Profit", "Short Take Profit"} =>
                line.price = r.take_profit
           /\ line.balance =
                initial_balance + SumResults(SubSeq(closed_trades, 1, k))
  /\ \A a, b \in 1..Len(log) :
       (a < b /\ log[b].kind # "Final Balance") =>
         /\ log[a].day <= log[b].day
         /\ log[a].day = log[b].day => ~(IsExit(log[a]) /\ IsEntry(log[b]))
         /\ log[a].date <= log[b].date

EventLogWitness ==
  /\ pc = "done"
  /\ Len(EntryLines) = 2 /\ Len(ExitLines) = 2
  /\ ExitLines[1].day < ExitLines[2].day
  /\ ExitLines[2].balance # ExitLines[1].balance
  /\ ExitLines[1].balance # initial_balance

=============================================================================
